---- MODULE Spec2Model ----
(***************************************************************************)
(* A model of the CHIP-8 virtual CPU of src/src/lib.rs: the CPU struct,    *)
(* its constructor, load_rom, update_keypad and emulate_cycle (fetch,      *)
(* decode, the opcode handlers, the timers).  Handlers are operators from  *)
(* a CPU record to a CPU record; a Rust panic is the field "panic" of the  *)
(* record, and the record then holds the struct as the handler left it.    *)
(* The byte arrays memory and display are held by their non-zero bytes: a  *)
(* function from the indices of those bytes, read with at(array, index)    *)
(* and written with with(array, index, value).                             *)
(***************************************************************************)
EXTENDS Integers, Sequences, FiniteSets, TLC

VARIABLES
    opcode, memory, v_reg, i_addr, pc, display, stack, sp,
    delay_timer, sound_timer, keypad,  \* the fields of struct CPU
    panic,              \* "" while the process runs, else the panic that ended it
    overflow_checks,    \* the build: TRUE = debug (overflow panics), FALSE = release (wraps)
    last,               \* history: the call that produced this state
    pre,                \* history: the CPU record before that call
    callsite,           \* history: callsite[d] = pc of the latest 2nnn executed at depth d
    all_defined,        \* history: every opcode executed so far is one of the instruction table
    cycles, keys,       \* history: number of calls made so far
    event,              \* history: the arguments of the latest update_keypad call
    held,               \* history: held[k] = key_down of the latest call whose key maps to k
    stored,             \* history: the latest Fx55 (its x, I and registers), valid
                        \* until memory is written again
    rom                 \* history: the image given to the latest load_rom

vars == <<opcode, memory, v_reg, i_addr, pc, display, stack, sp, delay_timer,
          sound_timer, keypad, panic, overflow_checks, last, pre, callsite,
          all_defined, cycles, keys, event, held, stored, rom>>

\* ------------------------------------------------------------------ bounds
MaxCycles == 20
MaxKeys == 2

\* ---------------------------------------------------------------- constants
PROGRAM_ROM_START == 512
FONTSET_START == 0
DISPLAY_WIDTH == 64
DISPLAY_HEIGHT == 32
DISPLAY_SIZE == DISPLAY_HEIGHT * DISPLAY_WIDTH * 3
MEMORY_SIZE == 4096
STACK_SIZE == 16
\* usize::MAX on a 64-bit target (2^64 - 1; a 32-bit target has 2^32 - 1).  It
\* is beyond TLC's integers and is held as its decimal numeral: the code only
\* ever uses it as an index into the stack, which it is beyond.
USIZE_MAX == "18446744073709551615"

CHIP8_FONTSET ==
    << 240, 144, 144, 144, 240,
        32,  96,  32,  32, 112,
       240,  16, 240, 128, 240,
       240,  16, 240,  16, 240,
       144, 144, 240,  16,  16,
       240, 128, 240,  16, 240,
       240, 128, 240, 144, 240,
       240,  16,  32,  64,  64,
       240, 144, 240, 144, 240,
       240, 144, 240,  16, 240,
       240, 144, 240, 144, 144,
       224, 144, 224, 144, 224,
       240, 128, 128, 128, 240,
       224, 144, 144, 144, 224,
       240, 128, 240, 128, 240,
       240, 128, 240, 128, 128 >>

\* ------------------------------------------------------- integer operators
\* Rust's &, | and ^ on unsigned integers.
RECURSIVE BitAnd(_, _)
BitAnd(a, b) ==
    IF a = 0 \/ b = 0 THEN 0
    ELSE (IF a % 2 = 1 /\ b % 2 = 1 THEN 1 ELSE 0) + 2 * BitAnd(a \div 2, b \div 2)

RECURSIVE BitOr(_, _)
BitOr(a, b) ==
    IF a = 0 THEN b
    ELSE IF b = 0 THEN a
    ELSE (IF a % 2 = 1 \/ b % 2 = 1 THEN 1 ELSE 0) + 2 * BitOr(a \div 2, b \div 2)

RECURSIVE BitXor(_, _)
BitXor(a, b) ==
    IF a = 0 THEN b
    ELSE IF b = 0 THEN a
    ELSE (IF a % 2 # b % 2 THEN 1 ELSE 0) + 2 * BitXor(a \div 2, b \div 2)

\* Rust's >> on an unsigned integer.
RECURSIVE ShiftRight(_, _)
ShiftRight(a, k) == IF k = 0 THEN a ELSE ShiftRight(a \div 2, k - 1)

\* ------------------------------------------------------------ trait Opcode
x(op) == ShiftRight(BitAnd(op, \h0F00), 8)
y(op) == ShiftRight(BitAnd(op, \h00F0), 4)
n(op) == BitAnd(op, \h000F)
kk(op) == BitAnd(op, \h00FF)
nnn(op) == BitAnd(op, \h0FFF)

\* ----------------------------------------------------------------- panics
Panic(c, msg) == [c EXCEPT !.panic = msg]

UNKNOWN_OPCODE == "unknown opcode"
MEMORY_INDEX == "index out of bounds: memory"
STACK_INDEX == "index out of bounds: stack"
DISPLAY_INDEX == "index out of bounds: display"
KEYPAD_INDEX == "index out of bounds: keypad"
SUB_OVERFLOW == "attempt to subtract with overflow"
MUL_OVERFLOW == "attempt to multiply with overflow"
BAD_RED == "red value wasn't 255 or 0"
BAD_PIXEL_STATE == "bad pixel state"

\* ------------------------------------------------------------ byte arrays
\* array[index], for an index within the array's length.
at(array, index) == IF index \in DOMAIN array THEN array[index] ELSE 0

\* The array after array[index] = value.
with(array, index, value) ==
    IF at(array, index) = value THEN array
    ELSE [k \in (IF value = 0 THEN DOMAIN array \ {index} ELSE DOMAIN array \cup {index}) |->
            IF k = index THEN value ELSE array[k]]

\* The array that holds bytes[k] at each index k of bytes, and array elsewhere.
overwritten(array, bytes) ==
    [k \in {j \in DOMAIN array \cup DOMAIN bytes :
                IF j \in DOMAIN bytes THEN bytes[j] # 0 ELSE TRUE} |->
        IF k \in DOMAIN bytes THEN bytes[k] ELSE array[k]]

\* [0; len]
zeroed == [k \in {} |-> 0]

\* ---------------------------------------------------------------- CPU::new
\* Mutant: the table loaded without its last sprite.
load_fontset_but_last(c) ==
    [c EXCEPT !.memory =
        overwritten(c.memory,
                    [a \in FONTSET_START..(FONTSET_START + Len(CHIP8_FONTSET) - 6) |->
                        CHIP8_FONTSET[a - FONTSET_START + 1]])]

load_fontset(c) ==
    [c EXCEPT !.memory =
        overwritten(c.memory,
                    [a \in FONTSET_START..(FONTSET_START + Len(CHIP8_FONTSET) - 1) |->
                        CHIP8_FONTSET[a - FONTSET_START + 1]])]

new ==
    load_fontset(
        [opcode |-> 0,
         memory |-> zeroed,
         v_reg |-> [r \in 0..15 |-> 0],
         i_addr |-> 0,
         pc |-> PROGRAM_ROM_START,
         display |-> zeroed,
         stack |-> [s \in 0..(STACK_SIZE - 1) |-> 0],
         sp |-> 0,
         delay_timer |-> 0,
         sound_timer |-> 0,
         keypad |-> [k \in 0..15 |-> 0],
         panic |-> ""])

\* Mutant: the whole file is copied, whatever its length.
load_rom_unbounded(c, image) ==
    [c EXCEPT !.memory =
        overwritten(c.memory,
                    [a \in PROGRAM_ROM_START..(PROGRAM_ROM_START + Len(image) - 1) |->
                        image[a - PROGRAM_ROM_START + 1]])]

\* file.read(&mut self.memory[PROGRAM_ROM_START..]): the file's bytes, as many
\* as fit in the slice, from PROGRAM_ROM_START on (one read of a regular file
\* returns all the bytes asked for that the file has).
load_rom(c, image) ==
    LET count == IF Len(image) < MEMORY_SIZE - PROGRAM_ROM_START
                 THEN Len(image) ELSE MEMORY_SIZE - PROGRAM_ROM_START
    IN  [c EXCEPT !.memory =
            overwritten(c.memory,
                        [a \in PROGRAM_ROM_START..(PROGRAM_ROM_START + count - 1) |->
                            image[a - PROGRAM_ROM_START + 1]])]

\* ------------------------------------------------------------------ pixels
\* get_pixel: the panic it ends in ("" when it returns), and what it returns.
get_pixel_panic(c, pixel_index) ==
    LET triplet_index == pixel_index * 3 IN
    IF triplet_index >= DISPLAY_SIZE THEN DISPLAY_INDEX
    ELSE IF at(c.display, triplet_index) \notin {0, 255} THEN BAD_RED
    ELSE ""

get_pixel(c, pixel_index) ==
    IF at(c.display, pixel_index * 3) = 255 THEN 1 ELSE 0

\* Mutant: only the first byte of the pixel is written.
set_pixel_red_only(c, pixel_index, state) ==
    LET triplet_index == pixel_index * 3
        pixel_value == IF state = 1 THEN 255 ELSE 0
    IN  IF state \notin {0, 1} THEN Panic(c, BAD_PIXEL_STATE)
        ELSE IF triplet_index >= DISPLAY_SIZE THEN Panic(c, DISPLAY_INDEX)
        ELSE [c EXCEPT !.display = with(c.display, triplet_index, pixel_value)]

set_pixel(c, pixel_index, state) ==
    LET triplet_index == pixel_index * 3
        pixel_value == IF state = 1 THEN 255 ELSE 0
    IN  IF state \notin {0, 1} THEN Panic(c, BAD_PIXEL_STATE)
        \* DISPLAY_SIZE is a multiple of 3: the three indices are in range together.
        ELSE IF triplet_index >= DISPLAY_SIZE THEN Panic(c, DISPLAY_INDEX)
        ELSE IF \A k \in triplet_index..(triplet_index + 2) : at(c.display, k) = pixel_value
        THEN c
        ELSE [c EXCEPT !.display =
                 overwritten(c.display,
                             [k \in triplet_index..(triplet_index + 2) |-> pixel_value])]

\* Mutant: the pixel is on if it was on or the new state is on.
xor_pixel_or(c, pixel_index, state) ==
    IF get_pixel_panic(c, pixel_index) # "" THEN Panic(c, get_pixel_panic(c, pixel_index))
    ELSE IF get_pixel(c, pixel_index) = 0 /\ state = 0 THEN set_pixel(c, pixel_index, 0)
    ELSE set_pixel(c, pixel_index, 1)

xor_pixel(c, pixel_index, state) ==
    IF get_pixel_panic(c, pixel_index) # "" THEN Panic(c, get_pixel_panic(c, pixel_index))
    ELSE IF get_pixel(c, pixel_index) = state THEN set_pixel(c, pixel_index, 0)
    ELSE set_pixel(c, pixel_index, 1)

\* ---------------------------------------------------------- update_keypad
\* Keycodes: the sixteen mapped keys, and one that is not mapped.
Keycodes ==
    {"Num1", "Num2", "Num3", "Num4", "Q", "W", "E", "R",
     "A", "S", "D", "F", "Z", "X", "C", "V", "P"}

\* keycode_to_hex: -1 stands for None.
keycode_to_hex(key) ==
    CASE key = "Num1" -> 1
      [] key = "Num2" -> 2
      [] key = "Num3" -> 3
      [] key = "Num4" -> 12
      [] key = "Q" -> 4
      [] key = "W" -> 5
      [] key = "E" -> 6
      [] key = "R" -> 13
      [] key = "A" -> 7
      [] key = "S" -> 8
      [] key = "D" -> 9
      [] key = "F" -> 14
      [] key = "Z" -> 10
      [] key = "X" -> 0
      [] key = "C" -> 11
      [] key = "V" -> 15
      [] OTHER -> -1

\* Mutant: a key event that also releases every other key.
update_keypad_one_key(c, key, key_down) ==
    IF keycode_to_hex(key) # -1
    THEN [c EXCEPT !.keypad = [k \in 0..15 |->
                                  IF k = keycode_to_hex(key) /\ key_down THEN 1 ELSE 0]]
    ELSE c

update_keypad(c, key, key_down) ==
    IF keycode_to_hex(key) # -1
    THEN [c EXCEPT !.keypad[keycode_to_hex(key)] = IF key_down THEN 1 ELSE 0]
    ELSE c

\* ------------------------------------------------------------ fetch_opcode
fetch_opcode(c) ==
    IF c.pc >= MEMORY_SIZE \/ c.pc + 1 >= MEMORY_SIZE THEN Panic(c, MEMORY_INDEX)
    ELSE [c EXCEPT !.opcode = BitOr(at(c.memory, c.pc) * 256, at(c.memory, c.pc + 1))]

\* ----------------------------------------------------------------- opcodes
\* (00E0)
opcode_cls(c) ==
    [c EXCEPT !.display = zeroed, !.pc = c.pc + 2]

\* Mutant: 00EE on a signed sp, an empty stack taken for one return address.
opcode_ret_signed(c) ==
    [c EXCEPT !.sp = c.sp - 1, !.pc = c.stack[IF c.sp = 0 THEN 0 ELSE c.sp - 1] + 2]

\* Mutant: 00EE that leaves pc at the call instead of after it.
opcode_ret_no_advance(c) ==
    IF c.sp = 0 /\ overflow_checks THEN Panic(c, SUB_OVERFLOW)
    ELSE IF c.sp = 0 THEN Panic([c EXCEPT !.sp = USIZE_MAX], STACK_INDEX)
    ELSE LET c1 == [c EXCEPT !.sp = c.sp - 1] IN
         IF c1.sp >= STACK_SIZE THEN Panic(c1, STACK_INDEX)
         ELSE [c1 EXCEPT !.pc = c1.stack[c1.sp]]

\* (00EE) self.sp -= 1 at sp = 0 panics in a build with overflow checks and
\* wraps to usize::MAX in one without, where the index into the stack then
\* panics, sp left at usize::MAX.
opcode_ret(c) ==
    IF c.sp = 0 /\ overflow_checks THEN Panic(c, SUB_OVERFLOW)
    ELSE IF c.sp = 0 THEN Panic([c EXCEPT !.sp = USIZE_MAX], STACK_INDEX)
    ELSE LET c1 == [c EXCEPT !.sp = c.sp - 1] IN
         IF c1.sp >= STACK_SIZE THEN Panic(c1, STACK_INDEX)
         ELSE [c1 EXCEPT !.pc = c1.stack[c1.sp] + 2]

\* (1nnn)
opcode_jp(c) == [c EXCEPT !.pc = nnn(c.opcode)]

\* (2nnn)
opcode_call(c) ==
    IF c.sp >= STACK_SIZE THEN Panic(c, STACK_INDEX)
    ELSE [c EXCEPT !.stack[c.sp] = c.pc, !.sp = c.sp + 1, !.pc = nnn(c.opcode)]

\* (3xkk)
opcode_se_byte(c) ==
    [c EXCEPT !.pc = IF c.v_reg[x(c.opcode)] = kk(c.opcode) THEN c.pc + 4 ELSE c.pc + 2]

\* (4xkk)
opcode_sne_byte(c) ==
    [c EXCEPT !.pc = IF c.v_reg[x(c.opcode)] # kk(c.opcode) THEN c.pc + 4 ELSE c.pc + 2]

\* (5xy0)
opcode_se_vx(c) ==
    [c EXCEPT !.pc = IF c.v_reg[x(c.opcode)] = c.v_reg[y(c.opcode)]
                     THEN c.pc + 4 ELSE c.pc + 2]

\* (6xkk)
opcode_ld_byte(c) ==
    [c EXCEPT !.v_reg[x(c.opcode)] = kk(c.opcode), !.pc = c.pc + 2]

\* (7xkk) wrapping_add
opcode_add_byte(c) ==
    [c EXCEPT !.v_reg[x(c.opcode)] = (c.v_reg[x(c.opcode)] + kk(c.opcode)) % 256,
              !.pc = c.pc + 2]

\* (8xy0)
opcode_ld_vy(c) ==
    [c EXCEPT !.v_reg[x(c.opcode)] = c.v_reg[y(c.opcode)], !.pc = c.pc + 2]

\* (8xy1)
opcode_or(c) ==
    [c EXCEPT !.v_reg[x(c.opcode)] = BitOr(c.v_reg[x(c.opcode)], c.v_reg[y(c.opcode)]),
              !.pc = c.pc + 2]

\* (8xy2)
opcode_and(c) ==
    [c EXCEPT !.v_reg[x(c.opcode)] = BitAnd(c.v_reg[x(c.opcode)], c.v_reg[y(c.opcode)]),
              !.pc = c.pc + 2]

\* (8xy3)
opcode_xor(c) ==
    [c EXCEPT !.v_reg[x(c.opcode)] = BitXor(c.v_reg[x(c.opcode)], c.v_reg[y(c.opcode)]),
              !.pc = c.pc + 2]

\* (8xy4) the flag is written first, the result second.
opcode_add(c) ==
    LET vx == c.v_reg[x(c.opcode)]
        vy == c.v_reg[y(c.opcode)]
        result == (vx + vy) % 256
        overflow == vx + vy > 255
        c1 == [c EXCEPT !.v_reg[15] = IF overflow THEN 1 ELSE 0]
    IN  [c1 EXCEPT !.v_reg[x(c.opcode)] = result, !.pc = c.pc + 2]

\* (8xy5)
opcode_sub(c) ==
    LET vx == c.v_reg[x(c.opcode)]
        vy == c.v_reg[y(c.opcode)]
        result == (vx - vy) % 256
        overflow == vx < vy
        c1 == [c EXCEPT !.v_reg[15] = IF overflow THEN 0 ELSE 1]
    IN  [c1 EXCEPT !.v_reg[x(c.opcode)] = result, !.pc = c.pc + 2]

\* (8xy6)
opcode_shr(c) ==
    LET lsb == BitAnd(c.v_reg[x(c.opcode)], 1)
        c1 == [c EXCEPT !.v_reg[15] = lsb]
    IN  [c1 EXCEPT !.v_reg[x(c.opcode)] = ShiftRight(c1.v_reg[x(c.opcode)], 1),
                   !.pc = c.pc + 2]

\* (8xy7)
opcode_subn(c) ==
    LET vx == c.v_reg[x(c.opcode)]
        vy == c.v_reg[y(c.opcode)]
        result == (vy - vx) % 256
        overflow == vy < vx
        c1 == [c EXCEPT !.v_reg[15] = IF overflow THEN 0 ELSE 1]
    IN  [c1 EXCEPT !.v_reg[x(c.opcode)] = result, !.pc = c.pc + 2]

\* (8xyE)
opcode_shl(c) ==
    LET msb == BitAnd(c.v_reg[x(c.opcode)], 128)
        c1 == [c EXCEPT !.v_reg[15] = msb]
    IN  [c1 EXCEPT !.v_reg[x(c.opcode)] = (c1.v_reg[x(c.opcode)] * 2) % 256,
                   !.pc = c.pc + 2]

\* (9xy0)
opcode_sne(c) ==
    [c EXCEPT !.pc = IF c.v_reg[x(c.opcode)] # c.v_reg[y(c.opcode)]
                     THEN c.pc + 4 ELSE c.pc + 2]

\* (Annn)
opcode_ld(c) == [c EXCEPT !.i_addr = nnn(c.opcode), !.pc = c.pc + 2]

\* (Bnnn)
opcode_jp_v0(c) == [c EXCEPT !.pc = nnn(c.opcode) + c.v_reg[0]]

\* (Cxkk) random_num is the byte rng.gen() returns.
opcode_rnd(c, random_num) ==
    [c EXCEPT !.v_reg[x(c.opcode)] = BitAnd(random_num, kk(c.opcode)), !.pc = c.pc + 2]

\* Mutant: no wrap to the start of the row.
target_pixel_index_no_wrap(starting_pixel, row_number, pixel_number) ==
    LET t0 == starting_pixel + ((row_number * DISPLAY_WIDTH) + pixel_number)
    IN  IF t0 > 2047 THEN t0 - DISPLAY_WIDTH * 31 ELSE t0

\* Mutant: the vertical wrap takes off 32 rows, not 31.
target_pixel_index_wrap_32(starting_pixel, row_number, pixel_number) ==
    LET t0 == starting_pixel + ((row_number * DISPLAY_WIDTH) + pixel_number)
        t1 == IF t0 > 2047 THEN t0 - DISPLAY_WIDTH * 32 ELSE t0
    IN  IF starting_pixel + pixel_number >= DISPLAY_WIDTH THEN t1 - DISPLAY_WIDTH ELSE t1

\* (Dxyn) the index of the pixel that sprite bit (row_number, pixel_number)
\* is drawn on, for a sprite whose first pixel is starting_pixel.
target_pixel_index(starting_pixel, row_number, pixel_number) ==
    LET t0 == starting_pixel + ((row_number * DISPLAY_WIDTH) + pixel_number)
        t1 == IF t0 > 2047 THEN t0 - DISPLAY_WIDTH * 31 ELSE t0
    IN  IF starting_pixel + pixel_number >= DISPLAY_WIDTH THEN t1 - DISPLAY_WIDTH ELSE t1

\* The bit of sprite_row under the mask 0x80 >> pixel_number.
sprite_pixel(sprite_row, pixel_number) ==
    IF BitAnd(sprite_row, ShiftRight(128, pixel_number)) = 0 THEN 0 ELSE 1

\* Mutant: a collision only where the sprite bit is on too.
drw_pixel_on_bits(c, target, state) ==
    IF get_pixel_panic(c, target) # "" THEN Panic(c, get_pixel_panic(c, target))
    ELSE xor_pixel(IF get_pixel(c, target) = 1 /\ state = 1
                   THEN [c EXCEPT !.v_reg[15] = 1] ELSE c,
                   target, state)

\* Mutant: the pixel is set to the sprite bit, not XORed with it.
drw_pixel_set(c, target, state) ==
    IF target < 0 THEN
        IF overflow_checks THEN Panic(c, SUB_OVERFLOW) ELSE Panic(c, DISPLAY_INDEX)
    ELSE IF get_pixel_panic(c, target) # "" THEN Panic(c, get_pixel_panic(c, target))
    ELSE set_pixel(IF get_pixel(c, target) = 1 THEN [c EXCEPT !.v_reg[15] = 1] ELSE c,
                   target, state)

\* One pass of the inner loop body: collision check, then XOR.
drw_pixel(c, target, state) ==
    IF target < 0 THEN
        IF overflow_checks THEN Panic(c, SUB_OVERFLOW) ELSE Panic(c, DISPLAY_INDEX)
    ELSE IF get_pixel_panic(c, target) # "" THEN Panic(c, get_pixel_panic(c, target))
    ELSE xor_pixel(IF get_pixel(c, target) = 1 THEN [c EXCEPT !.v_reg[15] = 1] ELSE c,
                   target, state)

\* The inner loop, from pixel_number on.
RECURSIVE drw_row(_, _, _, _, _)
drw_row(c, starting_pixel, row_number, sprite_row, pixel_number) ==
    IF pixel_number = 8 \/ c.panic # "" THEN c
    ELSE drw_row(drw_pixel(c, target_pixel_index(starting_pixel, row_number, pixel_number),
                           sprite_pixel(sprite_row, pixel_number)),
                 starting_pixel, row_number, sprite_row, pixel_number + 1)

\* The outer loop, from row_number on.
RECURSIVE drw_rows(_, _, _, _)
drw_rows(c, starting_pixel, height, row_number) ==
    IF row_number = height \/ c.panic # "" THEN c
    ELSE IF c.i_addr + row_number >= MEMORY_SIZE THEN Panic(c, MEMORY_INDEX)
    ELSE drw_rows(drw_row(c, starting_pixel, row_number,
                          at(c.memory, c.i_addr + row_number), 0),
                  starting_pixel, height, row_number + 1)

opcode_drw(c) ==
    LET vx == c.v_reg[x(c.opcode)]
        vy == c.v_reg[y(c.opcode)]
        starting_pixel == vx + (vy * DISPLAY_WIDTH)
        c1 == drw_rows([c EXCEPT !.v_reg[15] = 0], starting_pixel, n(c.opcode), 0)
    IN  IF c1.panic # "" THEN c1 ELSE [c1 EXCEPT !.pc = c.pc + 2]

\* (Ex9E)
opcode_skp(c) ==
    LET vx == c.v_reg[x(c.opcode)] IN
    IF vx >= 16 THEN Panic(c, KEYPAD_INDEX)
    ELSE [c EXCEPT !.pc = IF c.keypad[vx] = 1 THEN c.pc + 4 ELSE c.pc + 2]

\* Mutant: ExA1 that skips when the key is pressed, as Ex9E does.
opcode_sknp_pressed(c) ==
    LET vx == c.v_reg[x(c.opcode)] IN
    IF vx >= 16 THEN Panic(c, KEYPAD_INDEX)
    ELSE [c EXCEPT !.pc = IF c.keypad[vx] = 1 THEN c.pc + 4 ELSE c.pc + 2]

\* (ExA1)
opcode_sknp(c) ==
    LET vx == c.v_reg[x(c.opcode)] IN
    IF vx >= 16 THEN Panic(c, KEYPAD_INDEX)
    ELSE [c EXCEPT !.pc = IF c.keypad[vx] = 0 THEN c.pc + 4 ELSE c.pc + 2]

\* (Fx07)
opcode_get_dt(c) == [c EXCEPT !.v_reg[x(c.opcode)] = c.delay_timer, !.pc = c.pc + 2]

\* Mutant: Fx0A that holds pc until a key is down.
opcode_waitkey_blocking(c) ==
    IF \E k \in 0..15 : c.keypad[k] = 1 THEN [c EXCEPT !.pc = c.pc + 2] ELSE c

\* (Fx0A)
opcode_waitkey(c) == [c EXCEPT !.pc = c.pc + 2]

\* (Fx15)
opcode_set_dt(c) == [c EXCEPT !.delay_timer = c.v_reg[x(c.opcode)], !.pc = c.pc + 2]

\* (Fx18)
opcode_set_st(c) == [c EXCEPT !.sound_timer = c.v_reg[x(c.opcode)], !.pc = c.pc + 2]

\* (Fx1E)
opcode_add_i(c) == [c EXCEPT !.i_addr = c.i_addr + c.v_reg[x(c.opcode)], !.pc = c.pc + 2]

\* Mutant: sprites taken to be 4 bytes long.
opcode_set_sprite_by_4(c) ==
    LET vx == c.v_reg[x(c.opcode)] IN
    IF vx * 4 > 255 /\ overflow_checks THEN Panic(c, MUL_OVERFLOW)
    ELSE [c EXCEPT !.i_addr = FONTSET_START + ((vx * 4) % 256), !.pc = c.pc + 2]

\* (Fx29) vx * 5 is a u8 product.
opcode_set_sprite(c) ==
    LET vx == c.v_reg[x(c.opcode)] IN
    IF vx * 5 > 255 /\ overflow_checks THEN Panic(c, MUL_OVERFLOW)
    ELSE [c EXCEPT !.i_addr = FONTSET_START + ((vx * 5) % 256), !.pc = c.pc + 2]

\* self.memory[addr] = value
memory_store(c, addr, value) ==
    IF c.panic # "" THEN c
    ELSE IF addr >= MEMORY_SIZE THEN Panic(c, MEMORY_INDEX)
    ELSE [c EXCEPT !.memory = with(c.memory, addr, value)]

\* Mutant: the tens digit is Vx / 10, the hundreds not taken off.
opcode_bcd_vx_tens_of_all(c) ==
    LET vx == c.v_reg[x(c.opcode)]
        hundreds == vx \div 100
        tens == vx \div 10
        ones == vx % 10
        c1 == memory_store(memory_store(memory_store(c, c.i_addr + 0, hundreds),
                                        c.i_addr + 1, tens),
                           c.i_addr + 2, ones)
    IN  IF c1.panic # "" THEN c1 ELSE [c1 EXCEPT !.pc = c.pc + 2]

\* (Fx33) the arithmetic is on u8: a product above 255 or a difference below 0
\* panics in a build with overflow checks and wraps in one without.
opcode_bcd_vx(c) ==
    LET vx == c.v_reg[x(c.opcode)]
        hundreds == vx \div 100
        hundreds_100 == hundreds * 100
        rest == vx - (hundreds_100 % 256)
        tens == (rest % 256) \div 10
        tens_10 == tens * 10
        ones == (rest % 256) - (tens_10 % 256)
        c1 == memory_store(memory_store(memory_store(c, c.i_addr + 0, hundreds),
                                        c.i_addr + 1, tens),
                           c.i_addr + 2, ones % 256)
    IN  IF overflow_checks /\ (hundreds_100 > 255 \/ tens_10 > 255) THEN Panic(c, MUL_OVERFLOW)
        ELSE IF overflow_checks /\ (rest < 0 \/ ones < 0) THEN Panic(c, SUB_OVERFLOW)
        ELSE IF c1.panic # "" THEN c1 ELSE [c1 EXCEPT !.pc = c.pc + 2]

\* (Fx55) the loop for i in 0..=last, from i on.
RECURSIVE store_loop(_, _, _)
store_loop(c, i, last_reg) ==
    IF i > last_reg \/ c.panic # "" THEN c
    ELSE store_loop(memory_store(c, c.i_addr + i, c.v_reg[i]), i + 1, last_reg)

\* Mutant: the loop for i in 0..last, Vx itself left out.
opcode_store_vx_exclusive(c) ==
    LET c1 == store_loop(c, 0, x(c.opcode) - 1) IN
    IF c1.panic # "" THEN c1 ELSE [c1 EXCEPT !.pc = c.pc + 2]

opcode_store_vx(c) ==
    LET c1 == store_loop(c, 0, x(c.opcode)) IN
    IF c1.panic # "" THEN c1 ELSE [c1 EXCEPT !.pc = c.pc + 2]

\* (Fx65) the loop for i in 0..=last, from i on.
RECURSIVE read_loop(_, _, _)
read_loop(c, i, last_reg) ==
    IF i > last_reg \/ c.panic # "" THEN c
    ELSE IF c.i_addr + i >= MEMORY_SIZE THEN Panic(c, MEMORY_INDEX)
    ELSE read_loop([c EXCEPT !.v_reg[i] = at(c.memory, c.i_addr + i)], i + 1, last_reg)

opcode_read_vx(c) ==
    LET c1 == read_loop(c, 0, x(c.opcode)) IN
    IF c1.panic # "" THEN c1 ELSE [c1 EXCEPT !.pc = c.pc + 2]

\* ----------------------------------------------------------- decode_opcode
decode_0(c) ==
    CASE BitAnd(c.opcode, \h00FF) = \h00E0 -> opcode_cls(c)
      [] BitAnd(c.opcode, \h00FF) = \h00EE -> opcode_ret(c)
      [] OTHER -> Panic(c, UNKNOWN_OPCODE)

decode_8(c) ==
    CASE BitAnd(c.opcode, \h000F) = 0 -> opcode_ld_vy(c)
      [] BitAnd(c.opcode, \h000F) = 1 -> opcode_or(c)
      [] BitAnd(c.opcode, \h000F) = 2 -> opcode_and(c)
      [] BitAnd(c.opcode, \h000F) = 3 -> opcode_xor(c)
      [] BitAnd(c.opcode, \h000F) = 4 -> opcode_add(c)
      [] BitAnd(c.opcode, \h000F) = 5 -> opcode_sub(c)
      [] BitAnd(c.opcode, \h000F) = 6 -> opcode_shr(c)
      [] BitAnd(c.opcode, \h000F) = 7 -> opcode_subn(c)
      [] BitAnd(c.opcode, \h000F) = 14 -> opcode_shl(c)
      [] OTHER -> Panic(c, UNKNOWN_OPCODE)

decode_E(c) ==
    CASE BitAnd(c.opcode, \hF0FF) = \hE09E -> opcode_skp(c)
      [] BitAnd(c.opcode, \hF0FF) = \hE0A1 -> opcode_sknp(c)
      [] OTHER -> Panic(c, UNKNOWN_OPCODE)

decode_F(c) ==
    CASE BitAnd(c.opcode, \hF0FF) = \hF007 -> opcode_get_dt(c)
      [] BitAnd(c.opcode, \hF0FF) = \hF00A -> opcode_waitkey(c)
      [] BitAnd(c.opcode, \hF0FF) = \hF015 -> opcode_set_dt(c)
      [] BitAnd(c.opcode, \hF0FF) = \hF018 -> opcode_set_st(c)
      [] BitAnd(c.opcode, \hF0FF) = \hF01E -> opcode_add_i(c)
      [] BitAnd(c.opcode, \hF0FF) = \hF029 -> opcode_set_sprite(c)
      [] BitAnd(c.opcode, \hF0FF) = \hF033 -> opcode_bcd_vx(c)
      [] BitAnd(c.opcode, \hF0FF) = \hF055 -> opcode_store_vx(c)
      [] BitAnd(c.opcode, \hF0FF) = \hF065 -> opcode_read_vx(c)
      [] OTHER -> Panic(c, UNKNOWN_OPCODE)

decode_opcode(c, random_num) ==
    LET top == BitAnd(c.opcode, \hF000) IN
    CASE top = \h0000 -> decode_0(c)
      [] top = \h1000 -> opcode_jp(c)
      [] top = \h2000 -> opcode_call(c)
      [] top = \h3000 -> opcode_se_byte(c)
      [] top = \h4000 -> opcode_sne_byte(c)
      [] top = \h5000 -> opcode_se_vx(c)
      [] top = \h6000 -> opcode_ld_byte(c)
      [] top = \h7000 -> opcode_add_byte(c)
      [] top = \h8000 -> decode_8(c)
      [] top = \h9000 -> opcode_sne(c)
      [] top = \hA000 -> opcode_ld(c)
      [] top = \hB000 -> opcode_jp_v0(c)
      [] top = \hC000 -> opcode_rnd(c, random_num)
      [] top = \hD000 -> opcode_drw(c)
      [] top = \hE000 -> decode_E(c)
      [] top = \hF000 -> decode_F(c)
      [] OTHER -> Panic(c, UNKNOWN_OPCODE)

\* ----------------------------------------------------------- update_timers
\* Mutant: timers decremented without the test for 0.
update_timers_wrapping(c) ==
    [c EXCEPT !.delay_timer = (c.delay_timer - 1) % 256,
              !.sound_timer = (c.sound_timer - 1) % 256]

update_timers(c) ==
    LET c1 == IF c.delay_timer > 0 THEN [c EXCEPT !.delay_timer = c.delay_timer - 1] ELSE c
    IN  IF c1.sound_timer > 0 THEN [c1 EXCEPT !.sound_timer = c1.sound_timer - 1] ELSE c1

\* ----------------------------------------------------------- emulate_cycle
\* Mutant: the timers updated before the opcode is decoded.
emulate_cycle_timers_first(c, random_num) ==
    LET c1 == fetch_opcode(c) IN
    IF c1.panic # "" THEN c1
    ELSE decode_opcode(update_timers(c1), random_num)

emulate_cycle(c, random_num) ==
    LET c1 == fetch_opcode(c) IN
    IF c1.panic # "" THEN c1
    ELSE LET c2 == decode_opcode(c1, random_num) IN
         IF c2.panic # "" THEN c2 ELSE update_timers(c2)

\* ---------------------------------------------------------------- programs
\* The bytes of a program given as its 16-bit words, high byte first.
RECURSIVE Asm(_)
Asm(words) ==
    IF words = << >> THEN << >>
    ELSE <<Head(words) \div 256, Head(words) % 256>> \o Asm(Tail(words))

\* 2nnn onto itself: every cycle pushes one more return address.
ProgRecurse == Asm(<<\h2200>>)
\* 00EE with nothing on the stack.
ProgRetEmpty == Asm(<<\h00EE>>)
\* Nested calls and returns, then a jump onto itself.
ProgCallRet ==
    Asm(<<\h2206, \h2206, \h1204, \h220A, \h00EE, \h00EE>>)
\* 1nnn to the last byte of memory.
ProgJumpEnd == Asm(<<\h1FFF>>)
\* Bnnn beyond the end of memory.
ProgJumpV0 == Asm(<<\h60FF, \hBFFF>>)
\* Annn, Fx1E and the I-indexed accesses near the end of memory.
ProgStoreEnd == Asm(<<\hAFFF, \h6107, \hF155>>)
ProgReadEnd == Asm(<<\hAFFE, \hF265>>)
ProgBcdEnd == Asm(<<\hAFFD, \h60EB, \hF033, \hF01E, \hF033>>)
ProgDrawEnd == Asm(<<\hAFFE, \hD003>>)
\* Skips on the keypad and on registers, the timers and the stub Fx0A.
ProgKeys ==
    Asm(<<\h600A, \hE09E, \h1208, \hE0A1, \h120C, \h00E0, \hF00A,
          \h6103, \hF115, \hF118, \hF207, \h3203, \h4203, \h5120, \h9120, \h121E>>)
\* A full-size image whose last word is an instruction: 1FFE, zeros, 6000.
ProgLastWord ==
    [i \in 1..(MEMORY_SIZE - PROGRAM_ROM_START) |->
        IF i = 1 THEN \h1F
        ELSE IF i = 2 THEN \hFE
        ELSE IF i = MEMORY_SIZE - PROGRAM_ROM_START - 1 THEN \h60
        ELSE 0]

\* Every skip, taken and not, on registers drawn by Cxkk and on the keypad;
\* a skip not taken runs into a jump to where the skip would have led.
ProgSkips ==
    Asm(<<\hC005, \hC105,
          \h3005, \h1208, \h4005, \h120C, \h5010, \h1210, \h9010, \h1214,
          \hE09E, \h1218, \hE0A1, \h121C, \hF00A, \h00E0, \h1220>>)
\* The register instructions and Fx29 in a row.
ProgArith ==
    Asm(<<\h60F0, \h610F, \h7020, \h8210, \h8211, \h8212, \h8213, \h8014, \h8015,
          \h8016, \h8017, \h801E, \hF129, \hF029>>)

Programs ==
    {ProgRecurse, ProgRetEmpty, ProgCallRet, ProgJumpEnd, ProgJumpV0, ProgStoreEnd,
     ProgReadEnd, ProgBcdEnd, ProgDrawEnd, ProgKeys, ProgLastWord, ProgSkips, ProgArith}

\* A sprite of two rows drawn at every (Vx, Vy) of the screen, Vx in 0..63 and
\* Vy in 0..31 drawn by Cxkk: drawn, drawn again (every pixel of it collides),
\* drawn a third time, then a second sprite over it whose on bits miss the
\* first one's, then a sprite of no rows.  The word 0000 ends the run (the
\* decoder panics on it); the sprites follow it.
ProgDraw ==
    Asm(<<\hC03F, \hC11F, \hA214, \hD012, \hD012, \hD012, \hA216, \hD012, \hD010,
          \h0000, \hC0C0, \h3030>>)
\* A sprite of fifteen rows, the first three font digits, drawn twice.
ProgDrawTall ==
    Asm(<<\hC039, \hC11F, \hD01F, \hD01F, \h0000>>)

\* A sprite drawn twice at (VF, 0), VF drawn by Cxkk from {0, 1}: the first
\* draw leaves VF at 0, the second then draws at column 0.
ProgDrawFlag ==
    Asm(<<\hCF01, \h6100, \hA20C, \hDF12, \hDF12, \h0000, \hC0C0>>)

DrawPrograms == {ProgDraw, ProgDrawTall, ProgDrawFlag}

\* 8xy4 on every pair of registers, Vx and Vy drawn by Cxkk from eight values
\* each, and on the values 0xFF and 0x01.
AluPrograms ==
    {Asm(<<\hC083 + rx * 256, \hC0C1 + ry * 256, \h8004 + rx * 256 + ry * 16>>) :
        rx \in 0..15, ry \in 0..15}
    \cup {Asm(<<\h60FF, \h6101, \h8014>>)}

\* 8xy5 and 8xy7 on every pair of registers, Vx drawn by Cxkk from
\* {0, 1, 128, 129} and Vy from {0, 1, 2, 3}.
SubPrograms ==
    {Asm(<<\hC081 + rx * 256, \hC003 + ry * 256, \h8000 + rx * 256 + ry * 16 + op>>) :
        rx \in 0..15, ry \in 0..15, op \in {5, 7}}

\* 8xy6 and 8xyE on every register and every value of it (drawn by CxFF), y
\* another register or the same.
ShiftPrograms ==
    {Asm(<<\h6000 + ry * 256 + 3, \hC0FF + rx * 256, \h8000 + rx * 256 + ry * 16 + op>>) :
        rx \in 0..15, ry \in {1, 15}, op \in {6, 14}}

\* The font digit 0 drawn at (Vx, Vy), in the middle of the screen and across
\* its right and lower edges; the screen cleared; three rows drawn again.  And
\* the same at columns and rows beyond the screen, where the draw panics.
ScreenPrograms ==
    {Asm(<<\h6000 + vx, \h6100 + vy, \hD015, \h00E0, \hD013, \h0000>>) :
        vx \in {0, 30, 60}, vy \in {0, 15, 29}}
    \cup {Asm(<<\h6000 + vx, \h6100 + vy, \hD015, \h00E0, \h0000>>) :
        vx \in {64, 200}, vy \in {3, 32}}

\* Fx33 on every value of Vx (drawn by CxFF), x the first, a middle and the
\* last register, I past the program; and on 235 with I = 0.
BcdPrograms ==
    {Asm(<<\hC0FF + rx * 256, \hA300, \hF033 + rx * 256, \h0000>>) : rx \in {0, 7, 15}}
    \cup {Asm(<<\h63EB, \hF333, \h0000>>)}

\* Fx29 on every register and every digit 0..15 in it (drawn by Cx0F).  No
\* program of these writes memory: the font table stays as CPU::new left it.
FontPrograms ==
    {Asm(<<\hC00F + rx * 256, \hF029 + rx * 256, \h0000>>) : rx \in 0..15}

\* V0..VF read from 16 bytes of the image and V0 then drawn by Cxkk; Fx55 at
\* I = 0x300 or at I = 0xFFF - r (for r = x the last byte written is the last
\* of memory, for r < x the store panics); V0..VF read from 16 other bytes;
\* Fx65 at the same I.  For every x and r.
StorePrograms ==
    {Asm(<<\hA214, \hFF65, \hC081, \hA000 + at_i, \hF055 + rx * 256,
           \hA224, \hFF65, \hA000 + at_i, \hF065 + rx * 256, \h0000,
           \h1122, \h3344, \h5566, \h7788, \h99AA, \hBBCC, \hDDEE, \hFF10,
           \h0102, \h0304, \h0506, \h0708, \h090A, \h0B0C, \h0D0E, \h0F20>>) :
        rx \in 0..15, at_i \in {\h300} \cup {\hFFF - r : r \in 0..15}}

\* Ex9E, then ExA1 whether it skipped or not, on V0 with every key value 0..15
\* in it (drawn by Cxkk) and on every other register with the key values
\* 0, 2, 8 and 10.
KeypadPrograms ==
    {Asm(<<\hC000 + rx * 256 + (IF rx = 0 THEN \h0F ELSE \h0A),
           \hE09E + rx * 256, \hE0A1 + rx * 256, \hE0A1 + rx * 256, \h0000>>) :
        rx \in 0..15}

\* An image of len bytes: the bytes of prog, zeros, and from byte tail on the
\* bytes 1..255 in turn.
Padded(prog, len, tail) ==
    [i \in 1..len |->
        IF i <= Len(prog) THEN prog[i] ELSE IF i >= tail THEN (i % 255) + 1 ELSE 0]

\* A program that leaves no entity of the machine at 0: VA, both timers, I,
\* the digit 1 on the screen, a call.  Then 0000.
ProgBusy == Asm(<<\h6A07, \hFA15, \hFA18, \hA005, \hD005, \h220C, \h0000>>)

\* Images of no byte, of one byte, of the program alone, and of the program
\* and a tail that ends one byte before the end of memory, at it, one byte
\* after it and well after it.
LoadImages ==
    {<< >>, <<\h6A>>, ProgBusy}
    \cup {Padded(ProgBusy, len, MEMORY_SIZE - PROGRAM_ROM_START - 2) :
             len \in {MEMORY_SIZE - PROGRAM_ROM_START - 1, MEMORY_SIZE - PROGRAM_ROM_START,
                      MEMORY_SIZE - PROGRAM_ROM_START + 1, MEMORY_SIZE}}

\* The images loaded over a running program: one of three bytes, and one a
\* byte longer than memory with a tail across the end of memory.
ReloadImages ==
    {<<\h00, \hE0, \h00>>,
     Padded(<<\h00, \hE0>>, MEMORY_SIZE + 1, MEMORY_SIZE - PROGRAM_ROM_START - 1)}

\* Fx15, Fy07, Fx18, Fy07 and Fy15 in a row, Vx drawn by Cxkk from
\* {0, 1, 2, 3, 128, 129, 130, 131}, y another register or the same; the same
\* with Vx = 255; and an Fx55 that writes over its own two bytes.
TimerPrograms ==
    {Asm(<<\hC083 + rx * 256, \hF015 + rx * 256, \hF007 + ry * 256, \hF018 + rx * 256,
           \hF007 + ry * 256, \hF015 + ry * 256, \h0000>>) :
        rx \in {0, 7, 15}, ry \in {1, 15}}
    \cup {Asm(<<\h60FF, \hF015, \hF018, \hF107, \hF007, \h0000>>),
          Asm(<<\h6012, \h6134, \hA206, \hF155, \h0000>>)}

\* One opcode hi lo, run after V0 = 5 and one call: for every low byte, and a
\* high byte or two of every group of the decoder.
DecodeHigh ==
    {\h00, \h01, \h12, \h22, \h30, \h40, \h50, \h60, \h70, \h80, \h8F, \h90,
     \hA2, \hB2, \hC1, \hD0, \hE0, \hF0, \hF1}

DecodePrograms ==
    {Asm(<<\h6005, \h2204, hi * 256 + lo>>) : hi \in DecodeHigh, lo \in 0..255}

\* The keys the environment presses and releases: three mapped, one not.
Keys == {"Z", "X", "V", "P"}

\* ------------------------------------------------------ instruction table
\* The opcodes that match a pattern of the instruction table (spec 4.2).
Defined(op) ==
    LET top == op \div 4096 IN
    \/ op \in {\h00E0, \h00EE}
    \/ top \in {1, 2, 3, 4, 6, 7, 10, 11, 12, 13}
    \/ top \in {5, 9} /\ op % 16 = 0
    \/ top = 8 /\ op % 16 \in {0, 1, 2, 3, 4, 5, 6, 7, 14}
    \/ top = 14 /\ op % 256 \in {\h9E, \hA1}
    \/ top = 15 /\ op % 256 \in {\h07, \h0A, \h15, \h18, \h1E, \h29, \h33, \h55, \h65}

\* The cycle begun in c gets past its fetch.
Fetches(c) == c.pc + 1 < MEMORY_SIZE

\* ------------------------------------------------------------------ state
Self ==
    [opcode |-> opcode, memory |-> memory, v_reg |-> v_reg, i_addr |-> i_addr,
     pc |-> pc, display |-> display, stack |-> stack, sp |-> sp,
     delay_timer |-> delay_timer, sound_timer |-> sound_timer, keypad |-> keypad,
     panic |-> panic]

Store(c) ==
    /\ opcode' = c.opcode
    /\ memory' = c.memory
    /\ v_reg' = c.v_reg
    /\ i_addr' = c.i_addr
    /\ pc' = c.pc
    /\ display' = c.display
    /\ stack' = c.stack
    /\ sp' = c.sp
    /\ delay_timer' = c.delay_timer
    /\ sound_timer' = c.sound_timer
    /\ keypad' = c.keypad
    /\ panic' = c.panic

\* main: let mut emulator = CPU::new();
Init ==
    /\ opcode = new.opcode
    /\ memory = new.memory
    /\ v_reg = new.v_reg
    /\ i_addr = new.i_addr
    /\ pc = new.pc
    /\ display = new.display
    /\ stack = new.stack
    /\ sp = new.sp
    /\ delay_timer = new.delay_timer
    /\ sound_timer = new.sound_timer
    /\ keypad = new.keypad
    /\ panic = new.panic
    /\ overflow_checks \in BOOLEAN
    /\ last = "new"
    /\ pre = new
    /\ callsite = [d \in 0..(STACK_SIZE - 1) |-> 0]
    /\ all_defined = TRUE
    /\ cycles = 0
    /\ keys = 0
    /\ event = [key |-> "", key_down |-> FALSE]
    /\ held = [k \in 0..15 |-> FALSE]
    /\ stored = [valid |-> FALSE, x |-> 0, i_addr |-> 0, v_reg |-> new.v_reg]
    /\ rom = << >>

\* main: emulator.load_rom(&args[1]), once, before the loop.
LoadRomFrom(images) ==
    /\ last = "new"
    /\ \E image \in images :
          /\ Store(load_rom(Self, image))
          /\ rom' = image
    /\ last' = "load_rom"
    /\ pre' = Self
    /\ UNCHANGED <<overflow_checks, callsite, all_defined, cycles, keys, event, held, stored>>

\* main: Event::KeyDown / Event::KeyUp => emulator.update_keypad(key, ..)
UpdateKeypad ==
    /\ last # "new"
    /\ panic = ""
    /\ keys < MaxKeys
    /\ \E key \in Keys, key_down \in BOOLEAN :
          /\ Store(update_keypad(Self, key, key_down))
          /\ event' = [key |-> key, key_down |-> key_down]
          /\ held' = IF keycode_to_hex(key) # -1
                     THEN [held EXCEPT ![keycode_to_hex(key)] = key_down] ELSE held
    /\ last' = "update_keypad"
    /\ pre' = Self
    /\ keys' = keys + 1
    /\ UNCHANGED <<overflow_checks, callsite, all_defined, cycles, stored, rom>>

\* The bytes thread_rng() gives the coming cycle.  Cxkk keeps random_num & kk
\* alone, so of the bytes that agree under the mask kk one stands for all:
\* the byte that is its own masked value.  No other opcode draws a byte.
RandomBytes ==
    IF pc + 1 < MEMORY_SIZE /\ at(memory, pc) \div 16 = 12
    THEN {r \in 0..255 : BitAnd(r, at(memory, pc + 1)) = r}
    ELSE {0}

\* main: emulator.emulate_cycle(), while the process has not panicked.
EmulateCycle ==
    /\ last # "new"
    /\ panic = ""
    /\ cycles < MaxCycles
    /\ \E random_num \in RandomBytes :
          LET c == emulate_cycle(Self, random_num) IN
          /\ Store(c)
          /\ callsite' =
                IF c.panic = "" /\ c.opcode \div 4096 = 2
                THEN [callsite EXCEPT ![sp] = pc] ELSE callsite
          /\ all_defined' = (all_defined /\ (Fetches(Self) => Defined(c.opcode)))
          /\ stored' =
                IF c.panic = "" /\ BitAnd(c.opcode, \hF0FF) = \hF055
                THEN [valid |-> TRUE, x |-> x(c.opcode), i_addr |-> i_addr, v_reg |-> v_reg]
                ELSE IF c.memory # memory THEN [stored EXCEPT !.valid = FALSE]
                ELSE stored
    /\ last' = "emulate_cycle"
    /\ pre' = Self
    /\ cycles' = cycles + 1
    /\ UNCHANGED <<overflow_checks, keys, event, held, rom>>

LoadRom == LoadRomFrom(Programs)

Next == LoadRom \/ UpdateKeypad \/ EmulateCycle

Spec == Init /\ [][Next]_vars

\* The machine run on the programs of DecodePrograms, no key pressed.
LoadRomDecode == LoadRomFrom(DecodePrograms)

NextDecode == LoadRomDecode \/ EmulateCycle

SpecDecode == Init /\ [][NextDecode]_vars

\* The machine run on the programs of DrawPrograms, no key pressed.
LoadRomDraw == LoadRomFrom(DrawPrograms)

NextDraw == LoadRomDraw \/ EmulateCycle

SpecDraw == Init /\ [][NextDraw]_vars

\* The machine run on the programs of AluPrograms, no key pressed.
LoadRomAlu == LoadRomFrom(AluPrograms)

NextAlu == LoadRomAlu \/ EmulateCycle

SpecAlu == Init /\ [][NextAlu]_vars

\* A user of the library that calls set_pixel and xor_pixel on a new CPU: on
\* the pixels at the corners of the screen, at the ends of a row and inside
\* one, and on the index one past the last pixel; with the states 0 and 1
\* and with 2, which is neither.
PixelIndexes == {0, 5, 63, 64, 2047, 2048}

PixelStates == {0, 1, 2}

SetPixel ==
    /\ panic = ""
    /\ \E pixel_index \in PixelIndexes, state \in PixelStates :
          Store(set_pixel(Self, pixel_index, state))
    /\ last' = "set_pixel"
    /\ pre' = Self
    /\ UNCHANGED <<overflow_checks, callsite, all_defined, cycles, keys, event, held, stored,
                   rom>>

XorPixel ==
    /\ panic = ""
    /\ \E pixel_index \in PixelIndexes, state \in PixelStates :
          Store(xor_pixel(Self, pixel_index, state))
    /\ last' = "xor_pixel"
    /\ pre' = Self
    /\ UNCHANGED <<overflow_checks, callsite, all_defined, cycles, keys, event, held, stored,
                   rom>>

NextPixel == SetPixel \/ XorPixel

SpecPixel == Init /\ [][NextPixel]_vars

\* The machine run on the programs of ScreenPrograms, keys pressed and released.
LoadRomScreen == LoadRomFrom(ScreenPrograms)

NextScreen == LoadRomScreen \/ UpdateKeypad \/ EmulateCycle

SpecScreen == Init /\ [][NextScreen]_vars

\* The machine run on the programs of BcdPrograms, no key pressed.
LoadRomBcd == LoadRomFrom(BcdPrograms)

NextBcd == LoadRomBcd \/ EmulateCycle

SpecBcd == Init /\ [][NextBcd]_vars

\* The machine run on the programs of FontPrograms, no key pressed.
LoadRomFont == LoadRomFrom(FontPrograms)

NextFont == LoadRomFont \/ EmulateCycle

SpecFont == Init /\ [][NextFont]_vars

\* The machine run on the programs of StorePrograms, no key pressed.
LoadRomStore == LoadRomFrom(StorePrograms)

NextStore == LoadRomStore \/ EmulateCycle

SpecStore == Init /\ [][NextStore]_vars

\* The machine run on the programs of KeypadPrograms, keys pressed and released.
LoadRomKeypad == LoadRomFrom(KeypadPrograms)

NextKeypad == LoadRomKeypad \/ UpdateKeypad \/ EmulateCycle

SpecKeypad == Init /\ [][NextKeypad]_vars

\* The machine run on the images of LoadImages, keys pressed and released,
\* and a user of the library that calls load_rom once more, on the running
\* machine, with an image of ReloadImages.
LoadRomLoad == LoadRomFrom(LoadImages)

LoadRomAgain ==
    /\ last # "new"
    /\ panic = ""
    /\ rom \in LoadImages
    /\ \E image \in ReloadImages :
          /\ Store(load_rom(Self, image))
          /\ rom' = image
    /\ last' = "load_rom"
    /\ pre' = Self
    /\ UNCHANGED <<overflow_checks, callsite, all_defined, cycles, keys, event, held, stored>>

NextLoad == LoadRomLoad \/ LoadRomAgain \/ UpdateKeypad \/ EmulateCycle

SpecLoad == Init /\ [][NextLoad]_vars

\* The machine run on the programs of TimerPrograms, no key pressed.
LoadRomTimer == LoadRomFrom(TimerPrograms)

NextTimer == LoadRomTimer \/ EmulateCycle

SpecTimer == Init /\ [][NextTimer]_vars

\* The machine run on the programs of SubPrograms, no key pressed.
LoadRomSub == LoadRomFrom(SubPrograms)

NextSub == LoadRomSub \/ EmulateCycle

SpecSub == Init /\ [][NextSub]_vars

\* The machine run on the programs of ShiftPrograms, no key pressed.
LoadRomShift == LoadRomFrom(ShiftPrograms)

NextShift == LoadRomShift \/ EmulateCycle

SpecShift == Init /\ [][NextShift]_vars

\* ------------------------------------------------------------------ claims
\* The state is the outcome of a cycle that fetched its opcode (now in opcode).
Cycled == last = "emulate_cycle" /\ Fetches(pre)
\* ... and the handler ran to its end.
Completed == Cycled /\ panic = ""

\* A cycle that executed 2nnn with 16 return addresses on the stack, or 00EE
\* with none.
StackFault ==
    Cycled /\ ((opcode \div 4096 = 2 /\ pre.sp = STACK_SIZE)
               \/ (opcode = \h00EE /\ pre.sp = 0))

\* C5 as claimed: 2nnn with 16 return addresses on the stack, and 00EE with none,
\* end in a panic raised by the stack access: the process stops there, the stack
\* pointer is the one the instruction found (it has not wrapped around), pc is
\* not taken from any stack slot and no slot is overwritten. sp is compared as
\* a numeral, since a wrapped sp is held as one (USIZE_MAX).
C5_StackFaultsNeverWrap ==
    StackFault
    => (panic \in {STACK_INDEX, SUB_OVERFLOW} /\ ToString(sp) = ToString(pre.sp)
        /\ pc = pre.pc /\ stack = pre.stack /\ ~ENABLED EmulateCycle)

\* 00EE on an empty stack in a build without overflow checks: the process has
\* stopped at the stack access with sp wrapped to usize::MAX.
C5_WrappedOnReturn ==
    StackFault /\ opcode = \h00EE /\ ~overflow_checks /\ panic = STACK_INDEX
    /\ ToString(sp) = ToString(USIZE_MAX)

\* C6 as claimed: in every state without a panic, 0 <= sp < 16.
C6_SpBelow16 == panic = "" => (0 <= sp /\ sp < STACK_SIZE)

\* C6 as amended: in every state without a panic, 0 <= sp <= 16.
C6_SpAtMost16 == panic = "" => (0 <= sp /\ sp <= STACK_SIZE)

C6_Witness == panic = "" /\ sp = STACK_SIZE /\ last = "emulate_cycle"

\* C7 as claimed: while only opcodes of the instruction table are executed, no
\* access to memory is made outside 0..4095 (the model's memory-index panic).
C7_NoOutOfRangeAddress == all_defined => panic # MEMORY_INDEX

\* C9: 2nnn at pc = p and depth d stores p in stack[d], sets sp = d + 1 and
\* pc = nnn; 00EE at depth d + 1 sets sp = d and pc = p + 2, p being the pc of
\* the latest 2nnn executed at depth d.
C9_CallReturnRoundTrip ==
    Completed =>
        /\ opcode \div 4096 = 2 =>
              (stack[pre.sp] = pre.pc /\ sp = pre.sp + 1 /\ pc = opcode % 4096
               /\ pre.sp < STACK_SIZE)
        /\ opcode = \h00EE => (sp = pre.sp - 1 /\ pc = callsite[sp] + 2)

C9_Witness ==
    Completed /\ opcode = \h00EE /\ sp = 1 /\ pc = callsite[1] + 2 /\ pc = \h208

\* The cycle executed Dxyn; its operands, as they were before it.
Drew == Cycled /\ opcode \div 4096 = 13
DrwVx == pre.v_reg[(opcode \div 256) % 16]
DrwVy == pre.v_reg[(opcode \div 16) % 16]
DrwN == opcode % 16
\* Bit c (0 the most significant) of row r of the sprite at I.
DrwBit(r, c) == (at(pre.memory, pre.i_addr + r) \div (2 ^ (7 - c))) % 2
\* The pixel the code draws that bit on.
DrwTarget(r, c) == target_pixel_index(DrwVx + DrwVy * DISPLAY_WIDTH, r, c)

\* The index of C1: Vx + 64 Vy + 64 r + c, less 31 * 64 if above 2047, then
\* less 64 exactly when Vx + c >= 64.
ClaimedIndex(vx, vy, r, c) ==
    LET i0 == vx + 64 * vy + 64 * r + c
        i1 == IF i0 > 2047 THEN i0 - 31 * 64 ELSE i0
    IN  IF vx + c >= 64 THEN i1 - 64 ELSE i1

\* C1 as claimed: for Vx in 0..63 and Vy in 0..31, every sprite bit (r, c) of
\* Dxyn is drawn on the pixel of index ClaimedIndex(Vx, Vy, r, c).
C1_TargetIndex ==
    (Drew /\ DrwVx \in 0..63 /\ DrwVy \in 0..31)
    => \A r \in 0..(DrwN - 1), c \in 0..7 : DrwTarget(r, c) = ClaimedIndex(DrwVx, DrwVy, r, c)

\* C2: Dxyn with Vy = 0 and Vx in 0..63 leaves the pixel at column
\* (Vx + c) mod 64 of row r at its old state XOR sprite bit (r, c), for every
\* r < n and c < 8, and leaves every other byte of the framebuffer alone.
C2_Pixels == {64 * r + ((DrwVx + c) % 64) : r \in 0..(DrwN - 1), c \in 0..7}

C2_RowZeroDraw ==
    (Drew /\ panic = "" /\ DrwVy = 0 /\ DrwVx \in 0..63)
    => /\ \A r \in 0..(DrwN - 1), c \in 0..7 :
             LET p == 64 * r + ((DrwVx + c) % 64) IN
             /\ at(display, 3 * p) = (IF get_pixel(pre, p) # DrwBit(r, c) THEN 255 ELSE 0)
             /\ at(display, 3 * p + 1) = at(display, 3 * p)
             /\ at(display, 3 * p + 2) = at(display, 3 * p)
       /\ \A b \in DOMAIN display \cup DOMAIN pre.display :
             (b \div 3) \notin C2_Pixels => at(display, b) = at(pre.display, b)

C2_Witness ==
    /\ Drew /\ panic = "" /\ opcode = \hD012 /\ DrwVx = 63 /\ DrwVy = 0
    /\ DrwBit(0, 0) = 1 /\ DrwBit(0, 1) = 1 /\ DrwBit(1, 0) = 1 /\ DrwBit(1, 1) = 1
    /\ \A p \in {63, 0, 127, 64} : get_pixel(pre, p) = 1 /\ get_pixel(Self, p) = 0

\* C3: after Dxyn, VF is 1 if a pixel the draw visits was on before the draw
\* (no pixel is visited twice), and 0 if none was or n = 0.
C3_Collision ==
    (Drew /\ panic = "")
    => v_reg[15] = (IF \E r \in 0..(DrwN - 1), c \in 0..7 : get_pixel(pre, DrwTarget(r, c)) = 1
                    THEN 1 ELSE 0)

\* VF = 1 from pixels that were on under sprite bits that are off.
C3_Witness ==
    /\ Drew /\ panic = "" /\ DrwN = 2 /\ v_reg[15] = 1
    /\ \A r \in 0..1, c \in 0..7 : ~(DrwBit(r, c) = 1 /\ get_pixel(pre, DrwTarget(r, c)) = 1)

\* C10 as claimed: after 8xy4, VF = 1 if Vx + Vy > 255 and 0 otherwise, for
\* every x and y; and Vx = (Vx + Vy) mod 256 for x # 0xF.
C10_AddCarry ==
    (Completed /\ opcode \div 4096 = 8 /\ opcode % 16 = 4)
    => LET rx == (opcode \div 256) % 16
           ry == (opcode \div 16) % 16
           sum == pre.v_reg[rx] + pre.v_reg[ry]
       IN  /\ v_reg[15] = (IF sum > 255 THEN 1 ELSE 0)
           /\ rx # 15 => v_reg[rx] = sum % 256

\* C4 as claimed: an opcode that matches no pattern of the instruction table
\* ends the cycle in the decoder's panic.
C4_UndefinedOpcodeIsFatal ==
    (Cycled /\ ~Defined(opcode)) => panic = UNKNOWN_OPCODE

\* The skip instructions 3xkk, 4xkk, 5xy0, 9xy0, Ex9E and ExA1, each with the
\* condition under which it skips.
SkipTaken(op, c) ==
    LET top == op \div 4096
        vx == c.v_reg[(op \div 256) % 16]
        vy == c.v_reg[(op \div 16) % 16]
    IN  \/ top = 3 /\ vx = op % 256
        \/ top = 4 /\ vx # op % 256
        \/ top = 5 /\ op % 16 = 0 /\ vx = vy
        \/ top = 9 /\ op % 16 = 0 /\ vx # vy
        \/ top = 14 /\ op % 256 = \h9E /\ c.keypad[vx] = 1
        \/ top = 14 /\ op % 256 = \hA1 /\ c.keypad[vx] = 0

\* C8 as claimed: an opcode other than 1nnn, 2nnn, Bnnn and 00EE that is executed
\* leaves pc at pc + 2 or pc + 4, at pc + 4 only if it is a skip instruction
\* whose condition holds; Fx0A leaves it at pc + 2.
C8_PcAdvance ==
    (Completed /\ opcode \div 4096 \notin {1, 2, 11} /\ opcode # \h00EE)
    => /\ pc \in {pre.pc + 2, pre.pc + 4}
       /\ pc = pre.pc + 4 => SkipTaken(opcode, pre)
       /\ (opcode \div 4096 = 15 /\ opcode % 256 = \h0A) => pc = pre.pc + 2

\* C8 for the opcodes of the instruction table alone: pc + 4 exactly when the
\* opcode is a skip whose condition holds, pc + 2 otherwise.
C8_PcAdvanceInTable ==
    (Completed /\ Defined(opcode) /\ opcode \div 4096 \notin {1, 2, 11} /\ opcode # \h00EE)
    => pc = IF SkipTaken(opcode, pre) THEN pre.pc + 4 ELSE pre.pc + 2

\* The cycle executed 8xyN; its registers x and y.
Alu(low) == Cycled /\ opcode \div 4096 = 8 /\ opcode % 16 = low
AluX == (opcode \div 256) % 16
AluY == (opcode \div 16) % 16

\* C11 as claimed: after 8xy5, VF = 1 exactly when Vx >= Vy, and Vx is
\* (Vx - Vy) mod 256 for x # 0xF; after 8xy7 the same with Vx and Vy exchanged;
\* neither instruction panics.
C11_SubBorrow ==
    /\ Alu(5) =>
          /\ panic = ""
          /\ v_reg[15] = (IF pre.v_reg[AluX] >= pre.v_reg[AluY] THEN 1 ELSE 0)
          /\ AluX # 15 => v_reg[AluX] = (pre.v_reg[AluX] - pre.v_reg[AluY]) % 256
    /\ Alu(7) =>
          /\ panic = ""
          /\ v_reg[15] = (IF pre.v_reg[AluY] >= pre.v_reg[AluX] THEN 1 ELSE 0)
          /\ AluX # 15 => v_reg[AluX] = (pre.v_reg[AluY] - pre.v_reg[AluX]) % 256

\* C12 as claimed: after 8xy6, VF = Vx & 1 and Vx = Vx >> 1 for x # 0xF; after
\* 8xyE, VF = Vx & 0x80 and Vx = (2 * Vx) mod 256 for x # 0xF; no register
\* other than Vx and VF changes.
C12_Shift ==
    /\ Alu(6) =>
          /\ panic = ""
          /\ v_reg[15] = pre.v_reg[AluX] % 2
          /\ AluX # 15 => v_reg[AluX] = pre.v_reg[AluX] \div 2
          /\ \A r \in 0..14 : r # AluX => v_reg[r] = pre.v_reg[r]
    /\ Alu(14) =>
          /\ panic = ""
          /\ v_reg[15] = (IF pre.v_reg[AluX] >= 128 THEN 128 ELSE 0)
          /\ AluX # 15 => v_reg[AluX] = (2 * pre.v_reg[AluX]) % 256
          /\ \A r \in 0..14 : r # AluX => v_reg[r] = pre.v_reg[r]

\* A timer's value after the decrement of one step.
Ticked(t) == IF t > 0 THEN t - 1 ELSE 0

\* C13: both timers are in 0..255 in every state; a step that runs to its end
\* leaves each timer one below the value its instruction left (the timer's old
\* value, or Vx after Fx15 for the delay timer and after Fx18 for the sound
\* timer) if that value is above 0, and at 0 if it is 0.
C13_Timers ==
    /\ delay_timer \in 0..255
    /\ sound_timer \in 0..255
    /\ Completed =>
          /\ delay_timer = Ticked(IF BitAnd(opcode, \hF0FF) = \hF015
                                  THEN pre.v_reg[(opcode \div 256) % 16]
                                  ELSE pre.delay_timer)
          /\ sound_timer = Ticked(IF BitAnd(opcode, \hF0FF) = \hF018
                                  THEN pre.v_reg[(opcode \div 256) % 16]
                                  ELSE pre.sound_timer)

\* One step takes the sound timer from 1 to 0 and leaves the delay timer at 0.
C13_Witness ==
    /\ Completed /\ pre.delay_timer = 0 /\ delay_timer = 0
    /\ pre.sound_timer = 1 /\ sound_timer = 0

\* C14: in every state of a running machine, for every pixel p in 0..2047 and
\* state s in {0, 1}, xor_pixel(p, s) returns with pixel p (all three of its
\* bytes) at its old state XOR s: off when they are equal, on when they
\* differ; and with every byte of every other pixel as it was.
C14_XorPixel ==
    panic = "" =>
    \A p \in 0..2047, s \in {0, 1} :
        LET c == xor_pixel(Self, p, s)
            e == get_pixel(Self, p)
        IN  /\ c.panic = ""
            /\ \A b \in (3 * p)..(3 * p + 2) :
                   at(c.display, b) = (IF e = s THEN 0 ELSE 255)
            /\ \A b \in DOMAIN c.display \cup DOMAIN display :
                   b \div 3 # p => at(c.display, b) = at(display, b)

\* A call with state 1 on a pixel that is on, which turns it off, and one with
\* state 0 on a pixel that is on, which leaves it on.
C14_Witness ==
    /\ last = "xor_pixel"
    /\ get_pixel(pre, 2047) = 1 /\ get_pixel(Self, 2047) = 0
    /\ get_pixel(Self, 63) = 1 /\ get_pixel(Self, 0) = 1

\* C15: in every state the three bytes of each pixel are equal, and 0 or 255
\* (a byte that is not 0 belongs to a pixel 0..2047 whose bytes are all 255);
\* get_pixel never panics on the value of a byte; 00E0 leaves every byte at 0.
C15_PixelBytes ==
    /\ \A b \in DOMAIN display :
          display[b] # 0 =>
              /\ b \div 3 \in 0..2047
              /\ \A k \in 0..2 : at(display, 3 * (b \div 3) + k) = 255
    /\ panic # BAD_RED
    /\ (Cycled /\ opcode = \h00E0) =>
          (panic = "" /\ \A b \in DOMAIN display : display[b] = 0)

\* 00E0 on a screen with pixels on.
C15_Witness ==
    /\ Completed /\ opcode = \h00E0
    /\ \E p \in 0..2047 : get_pixel(pre, p) = 1
    /\ \A p \in 0..2047 : get_pixel(Self, p) = 0 /\ at(display, 3 * p + 2) = 0

\* The cycle executed FxNN with low byte low; its register x.
Fx(low) == Cycled /\ opcode \div 4096 = 15 /\ opcode % 256 = low
FxX == (opcode \div 256) % 16

\* C16: Fx33 ends in no arithmetic panic; when it runs to its end, memory[I],
\* memory[I+1] and memory[I+2] hold Vx div 100, (Vx div 10) mod 10 and
\* Vx mod 10, and every other byte of memory, every register and I are as
\* they were.
C16_Bcd ==
    Fx(\h33) =>
        /\ panic \notin {MUL_OVERFLOW, SUB_OVERFLOW}
        /\ panic = "" =>
              LET v == pre.v_reg[FxX] IN
              /\ at(memory, pre.i_addr) = v \div 100
              /\ at(memory, pre.i_addr + 1) = (v \div 10) % 10
              /\ at(memory, pre.i_addr + 2) = v % 10
              /\ \A a \in DOMAIN memory \cup DOMAIN pre.memory :
                     a \notin pre.i_addr..(pre.i_addr + 2) => at(memory, a) = at(pre.memory, a)
              /\ v_reg = pre.v_reg
              /\ i_addr = pre.i_addr

\* Fx33 with Vx = 235 leaves 2, 3, 5.
C16_Witness ==
    /\ Fx(\h33) /\ panic = "" /\ pre.v_reg[FxX] = 235
    /\ at(memory, i_addr) = 2 /\ at(memory, i_addr + 1) = 3 /\ at(memory, i_addr + 2) = 5

\* C17: Fx29 with a digit d = Vx in 0..15 runs to its end with I = 5 d, and
\* the five bytes of memory from I on are the font sprite of d, which for
\* d = 0xA is F0 90 F0 90 90 (the font table not having been written since
\* construction).
C17_SetSprite ==
    (Fx(\h29) /\ pre.v_reg[FxX] \in 0..15) =>
        LET d == pre.v_reg[FxX] IN
        /\ panic = ""
        /\ i_addr = 5 * d
        /\ \A k \in 0..4 : at(memory, i_addr + k) = CHIP8_FONTSET[5 * d + k + 1]
        /\ d = 10 => <<at(memory, i_addr), at(memory, i_addr + 1), at(memory, i_addr + 2),
                        at(memory, i_addr + 3), at(memory, i_addr + 4)>>
                      = <<\hF0, \h90, \hF0, \h90, \h90>>

C17_Witness ==
    /\ Fx(\h29) /\ panic = "" /\ pre.v_reg[FxX] = 10 /\ i_addr = 50
    /\ at(memory, 50) = \hF0 /\ at(memory, 51) = \h90 /\ at(memory, 54) = \h90

\* C18: with I + x <= 4095, Fx55 runs to its end with memory[I + i] = Vi for
\* every i in 0..x and every other byte of memory, every register and I as
\* they were; Fx65 runs to its end with Vi = memory[I + i] for every i in 0..x
\* and every register above x, memory and I as they were; and Fx65 with the x
\* and I of the latest Fx55, memory not written since, leaves V0..Vx at the
\* values that Fx55 stored.
C18_StoreRead ==
    /\ (Fx(\h55) /\ pre.i_addr + FxX <= 4095) =>
          /\ panic = ""
          /\ \A i \in 0..FxX : at(memory, pre.i_addr + i) = pre.v_reg[i]
          /\ \A a \in DOMAIN memory \cup DOMAIN pre.memory :
                 a \notin pre.i_addr..(pre.i_addr + FxX) => at(memory, a) = at(pre.memory, a)
          /\ v_reg = pre.v_reg
          /\ i_addr = pre.i_addr
    /\ (Fx(\h65) /\ pre.i_addr + FxX <= 4095) =>
          /\ panic = ""
          /\ \A i \in 0..FxX : v_reg[i] = at(pre.memory, pre.i_addr + i)
          /\ \A r \in (FxX + 1)..15 : v_reg[r] = pre.v_reg[r]
          /\ \A a \in DOMAIN memory \cup DOMAIN pre.memory : at(memory, a) = at(pre.memory, a)
          /\ i_addr = pre.i_addr
    /\ (Fx(\h65) /\ panic = "" /\ stored.valid /\ stored.x = FxX
           /\ stored.i_addr = pre.i_addr) =>
          \A i \in 0..FxX : v_reg[i] = stored.v_reg[i]

\* Fx55 then Fx65 with x = 0xE at I = 0xFF1, the registers changed in between:
\* V0..VE are back, VF is not.
C18_Witness ==
    /\ Fx(\h65) /\ panic = "" /\ FxX = 14 /\ pre.i_addr + FxX = 4095
    /\ stored.valid /\ stored.x = 14 /\ stored.i_addr = pre.i_addr
    /\ \A i \in 0..14 : v_reg[i] = stored.v_reg[i] /\ pre.v_reg[i] # v_reg[i]
    /\ v_reg[15] # stored.v_reg[15]

\* The cycle executed Ex9E or ExA1; its register x; what the other of the two
\* instructions, on the same register, does in the state the cycle began in.
KeySkip == Cycled /\ opcode \div 4096 = 14 /\ opcode % 256 \in {\h9E, \hA1}
KeySkipOther ==
    IF opcode % 256 = \h9E
    THEN opcode_sknp([pre EXCEPT !.opcode = opcode - \h9E + \hA1])
    ELSE opcode_skp([pre EXCEPT !.opcode = opcode - \hA1 + \h9E])

\* C19: with a key value Vx in 0..15, Ex9E leaves pc at pc + 4 if keypad[Vx]
\* is pressed and at pc + 2 if not, ExA1 at pc + 4 if it is not pressed and at
\* pc + 2 if it is; of the two exactly one skips in the same state; the keypad
\* and the registers are as they were.
C19_KeySkips ==
    (KeySkip /\ pre.v_reg[FxX] \in 0..15) =>
        LET down == pre.keypad[pre.v_reg[FxX]] IN
        /\ panic = ""
        /\ down \in {0, 1}
        /\ opcode % 256 = \h9E => pc = pre.pc + (IF down = 1 THEN 4 ELSE 2)
        /\ opcode % 256 = \hA1 => pc = pre.pc + (IF down = 0 THEN 4 ELSE 2)
        /\ KeySkipOther.pc \in {pre.pc + 2, pre.pc + 4}
        /\ (pc = pre.pc + 4) # (KeySkipOther.pc = pre.pc + 4)
        /\ keypad = pre.keypad
        /\ v_reg = pre.v_reg

\* Key A held: Ex9E on a register other than V0 skips.
C19_Witness ==
    /\ KeySkip /\ panic = "" /\ opcode = \hE39E /\ pre.v_reg[3] = 10
    /\ pre.keypad[10] = 1 /\ pc = pre.pc + 4 /\ KeySkipOther.pc = pre.pc + 2

\* C20: every slot k of the keypad holds key_down of the latest update_keypad
\* call whose key maps to k, released if there was none; update_keypad with a
\* key that maps to k changes slot k and nothing else, with a key that maps to
\* no slot it changes nothing (of the call made, and of a call with any
\* keycode in the state reached); emulate_cycle leaves the keypad as it was.
C20_Keypad ==
    /\ \A k \in 0..15 : keypad[k] = (IF held[k] THEN 1 ELSE 0)
    /\ last = "update_keypad" =>
          LET k == keycode_to_hex(event.key) IN
          IF k = -1 THEN Self = pre
          ELSE Self = [pre EXCEPT !.keypad[k] = IF event.key_down THEN 1 ELSE 0]
    /\ last = "emulate_cycle" => keypad = pre.keypad
    /\ \A key \in Keycodes, key_down \in BOOLEAN :
          LET c == update_keypad(Self, key, key_down)
              k == keycode_to_hex(key)
          IN  /\ [c EXCEPT !.keypad = keypad] = Self
              /\ \A j \in 0..15 :
                     c.keypad[j] = (IF j = k THEN (IF key_down THEN 1 ELSE 0) ELSE keypad[j])

\* Key A pressed, a cycle run, key A released: slot A holds the release.
C20_Witness ==
    /\ last = "update_keypad" /\ event = [key |-> "Z", key_down |-> FALSE]
    /\ pre.keypad[10] = 1 /\ keypad[10] = 0 /\ ~held[10] /\ cycles > 0 /\ keys = 2

\* The number of bytes load_rom copies from an image of len bytes.
Copied(len) == IF len < 3584 THEN len ELSE 3584

\* C21: load_rom with an image of any length L, L > 3584 included, leaves byte
\* i of the image in memory[0x200 + i] for every i < min(L, 3584), no byte at
\* or beyond address 4096, and memory 0x000..0x1FF, the registers, I, pc, the
\* stack and sp, the timers, the framebuffer and the keypad as they were.
C21_LoadRom ==
    last = "load_rom" =>
        /\ \A i \in 0..(Copied(Len(rom)) - 1) : at(memory, \h200 + i) = rom[i + 1]
        /\ \A a \in DOMAIN memory : a \in 0..4095
        /\ \A a \in 0..\h1FF : at(memory, a) = at(pre.memory, a)
        /\ v_reg = pre.v_reg /\ i_addr = pre.i_addr /\ pc = pre.pc
        /\ stack = pre.stack /\ sp = pre.sp
        /\ delay_timer = pre.delay_timer /\ sound_timer = pre.sound_timer
        /\ display = pre.display /\ keypad = pre.keypad
        /\ panic = ""

\* An image a byte longer than memory loaded over a program that has set a
\* register, the timers and I, drawn, and is in a subroutine, a key held: the
\* last byte of memory holds byte 3583 of the image.
C21_Witness ==
    /\ last = "load_rom" /\ Len(rom) = 4097
    /\ at(memory, 4095) = rom[3584] /\ rom[3584] # 0 /\ rom[3585] # 0
    /\ at(pre.memory, 4095) = 0
    /\ v_reg[10] = 7 /\ i_addr = 5 /\ pc = \h20C /\ sp = 1 /\ stack[0] = \h20A
    /\ delay_timer > 0 /\ sound_timer > 0
    /\ get_pixel(Self, 2) = 1
    /\ \E k \in 0..15 : keypad[k] = 1

\* C22: right after construction memory[0x000..0x04F] holds the 80 bytes of
\* the font table (F0 90 first, E0 at 65, 80 last), pc = 0x200, and the rest
\* of memory, the 16 registers, I, the stack and sp, both timers, every byte
\* of the framebuffer, every slot of the keypad and the opcode are 0.
C22_Construction ==
    last = "new" =>
        /\ Len(CHIP8_FONTSET) = 80
        /\ \A a \in 0..\h4F : at(memory, a) = CHIP8_FONTSET[a + 1]
        /\ <<at(memory, 0), at(memory, 1), at(memory, 65), at(memory, 79)>>
              = <<\hF0, \h90, \hE0, \h80>>
        /\ pc = \h200
        /\ \A a \in DOMAIN memory : a \notin 0..\h4F => memory[a] = 0
        /\ \A r \in 0..15 : v_reg[r] = 0
        /\ i_addr = 0
        /\ \A d \in 0..15 : stack[d] = 0
        /\ sp = 0
        /\ delay_timer = 0 /\ sound_timer = 0
        /\ \A b \in DOMAIN display : display[b] = 0
        /\ \A k \in 0..15 : keypad[k] = 0
        /\ opcode = 0
        /\ panic = ""

\* The machine as constructed, the last byte of the font table in place.
C22_Witness ==
    /\ last = "new" /\ Self = new /\ cycles = 0 /\ keys = 0
    /\ at(memory, \h4F) = \h80 /\ at(memory, \h50) = 0 /\ pc = \h200

\* C23: the opcode a step executes is memory[pc] * 256 + memory[pc + 1] as
\* memory and pc were when the step began; the timers are decremented after
\* the instruction: a step that executes Fx15 with Vx = v ends with the delay
\* timer at max(v - 1, 0), one that executes Fx18 with the sound timer at
\* max(v - 1, 0), and one that executes Fx07 with Vx at the value the delay
\* timer had when the step began, the timer itself one lower if it was not 0.
C23_StepOrder ==
    /\ Cycled => opcode = at(pre.memory, pre.pc) * 256 + at(pre.memory, pre.pc + 1)
    /\ Fx(\h15) =>
          /\ panic = ""
          /\ delay_timer = (IF pre.v_reg[FxX] - 1 > 0 THEN pre.v_reg[FxX] - 1 ELSE 0)
    /\ Fx(\h18) =>
          /\ panic = ""
          /\ sound_timer = (IF pre.v_reg[FxX] - 1 > 0 THEN pre.v_reg[FxX] - 1 ELSE 0)
    /\ Fx(\h07) =>
          /\ panic = ""
          /\ v_reg[FxX] = pre.delay_timer
          /\ delay_timer = (IF pre.delay_timer > 0 THEN pre.delay_timer - 1 ELSE 0)

\* Fx07 reads 2 from the delay timer and leaves the timer at 1.
C23_Witness ==
    /\ Fx(\h07) /\ panic = "" /\ pre.delay_timer = 2 /\ v_reg[FxX] = 2 /\ delay_timer = 1
    /\ pre.v_reg[FxX] # 2

\* A step whose instruction writes over itself: the opcode is the one fetched.
C23_WitnessFetch ==
    /\ Fx(\h55) /\ panic = "" /\ opcode = \hF155
    /\ at(memory, pre.pc) * 256 + at(memory, pre.pc + 1) = \h1234

\* C24: for Vx in 0..63, Vy in 0..31 and n in 0..15, every pixel index that
\* Dxyn computes is in 0..2047 (neither subtraction takes it below 0, none is
\* left above 2047), for every sprite bit (r, c) of every such draw; and a
\* draw that is made with such Vx and Vy ends in no fault of the framebuffer
\* index.
C24_IndexInRange ==
    /\ last = "new" =>
          \A vx \in 0..63, vy \in 0..31, r \in 0..14, c \in 0..7 :
              target_pixel_index(vx + (vy * DISPLAY_WIDTH), r, c) \in 0..2047
    /\ (Drew /\ DrwVx \in 0..63 /\ DrwVy \in 0..31) =>
          /\ panic \notin {DISPLAY_INDEX, SUB_OVERFLOW}
          /\ \A r \in 0..(DrwN - 1), c \in 0..7 : DrwTarget(r, c) \in 0..2047

\* Fifteen rows drawn from the last row of the screen: the last bit of the
\* last row is taken back by both subtractions.
C24_Witness ==
    /\ Drew /\ panic = "" /\ DrwN = 15 /\ DrwVx = 57 /\ DrwVy = 31
    /\ DrwVx + (DrwVy * 64) + (14 * 64) + 7 = 2944
    /\ DrwTarget(14, 7) = 2944 - (31 * 64) - 64
    /\ DrwTarget(0, 0) = 2041 - 64

\* The same Dxyn executed once more, in the state the draw left.
DrawnAgain == opcode_drw(Self)

\* C25: for Vx in 0..63, Vy in 0..31, n in 0..15 and I + n <= 4096, a Dxyn
\* executed a second time right after the first, Vx, Vy, I and the sprite
\* bytes the same, runs to its end and leaves every byte of the framebuffer
\* (so each of the 2048 pixels) as it was before the first; the draw itself
\* leaves I and memory alone.
C25_DrawTwice ==
    (Drew /\ panic = "" /\ DrwVx \in 0..63 /\ DrwVy \in 0..31 /\ pre.i_addr + DrwN <= 4096
        /\ v_reg[(opcode \div 256) % 16] = DrwVx /\ v_reg[(opcode \div 16) % 16] = DrwVy)
    => LET again == DrawnAgain IN
       /\ i_addr = pre.i_addr
       /\ memory = pre.memory
       /\ again.panic = ""
       /\ \A b \in DOMAIN again.display \cup DOMAIN pre.display :
              at(again.display, b) = at(pre.display, b)

\* A sprite drawn across the right and lower edges of the screen, next to
\* pixels that are on: they stay on, the sprite's go on; drawn again, the
\* screen is as before.
C25_Witness ==
    /\ Drew /\ panic = "" /\ opcode = \hD012 /\ DrwVx = 63 /\ DrwVy = 31
    /\ \E p \in 0..2047 : get_pixel(pre, p) = 1 /\ get_pixel(Self, p) = 1
    /\ \E p \in 0..2047 : get_pixel(pre, p) = 0 /\ get_pixel(Self, p) = 1
    /\ LET again == DrawnAgain IN
       /\ again.panic = ""
       /\ \A p \in 0..2047 : get_pixel(again, p) = get_pixel(pre, p)

\* VF as the column register: the draw changes it from 1 to 0, the second
\* draw is made at another column and the screen is not as it was.
C25_FlagAsColumn ==
    /\ Drew /\ panic = "" /\ opcode = \hDF12 /\ DrwVx = 1 /\ v_reg[15] = 0
    /\ LET again == DrawnAgain IN
       \E p \in 0..2047 : get_pixel(again, p) # get_pixel(pre, p)

====
